---- MODULE Spec2Model ----
(***************************************************************************)
(* Rwanda merchandise-trade dashboard: the table written by                *)
(* create_rwanda_trade_data.py and the filter / KPI / aggregation engine   *)
(* of rwanda_trade_dashboard.py.                                           *)
(*                                                                         *)
(* The dashboard is a Streamlit script: every widget change re-executes    *)
(* the script from top to bottom.  One action of the model is therefore    *)
(* one widget change followed by the whole re-execution (Rerun).           *)
(*                                                                         *)
(* Numbers.  Trade values are whole USD amounts (the CSV holds floats      *)
(* rounded to 2 decimals; sums of integers are exact).  A quotient is kept *)
(* as an exact ratio [num, den]; 0/0, which numpy evaluates to nan without *)
(* raising, is the value NaN.  Series.round(2) is kept in hundredths.      *)
(***************************************************************************)
EXTENDS Integers, Sequences, FiniteSets, TLC

\* ------------------------------------------------------------------ bounds
\* Longest table the model loads.
MaxRows == 2
\* Cut of the partner rankings: nlargest(20) in the source, scaled down so
\* that a table of MaxRows rows can hold more groups than the cut.
TopPartners == 1
\* Cut of the product rankings: nlargest(15) in the source, scaled down.
TopProducts == 2

\* --------------------------------------------- create_rwanda_trade_data.py
quarters ==
  [m \in 1..12 |-> IF m <= 3 THEN "Q1" ELSE IF m <= 6 THEN "Q2"
                   ELSE IF m <= 9 THEN "Q3" ELSE "Q4"]

month_names ==
  <<"January", "February", "March", "April", "May", "June", "July",
    "August", "September", "October", "November", "December">>

flows == <<"Export", "Import", "Re-export">>

export_partners ==
  <<"Uganda", "Kenya", "Tanzania", "Burundi", "DRC",
    "United States", "United Kingdom", "Germany", "Belgium", "Netherlands",
    "China", "India", "UAE", "South Africa", "Switzerland",
    "France", "Italy", "Canada", "Japan", "Singapore",
    "Egypt", "Ghana", "Nigeria", "Zambia", "Zimbabwe">>

import_partners ==
  <<"China", "India", "UAE", "Kenya", "Uganda",
    "Tanzania", "United States", "South Africa", "Germany", "Japan",
    "United Kingdom", "Belgium", "France", "Netherlands", "Italy",
    "Saudi Arabia", "Turkey", "Thailand", "Indonesia", "Brazil",
    "Egypt", "Morocco", "Nigeria", "Zambia", "Burundi">>

\* Line 122: partners[:20].
PartnersPerFlow == 20

\* Lines 114-119: exports go to the export partners, imports and re-exports
\* come from the import partners.
partners(flow) ==
  IF flow = "Export" THEN export_partners ELSE import_partners

\* A Python dict literal is a sequence of key/value pairs; a key written
\* twice keeps the value written last.
DictHas(d, k) == \E i \in 1..Len(d) : d[i][1] = k

DictGet(d, k, default) ==
  IF DictHas(d, k)
  THEN LET last == CHOOSE i \in 1..Len(d) :
                     /\ d[i][1] = k
                     /\ \A j \in (i+1)..Len(d) : d[j][1] # k
       IN d[last][2]
  ELSE default

continent_map ==
  << <<"Uganda", "Africa">>, <<"Kenya", "Africa">>, <<"Tanzania", "Africa">>,
     <<"Burundi", "Africa">>, <<"DRC", "Africa">>, <<"South Africa", "Africa">>,
     <<"Egypt", "Africa">>, <<"Ghana", "Africa">>, <<"Nigeria", "Africa">>,
     <<"Zambia", "Africa">>, <<"Zimbabwe", "Africa">>, <<"Morocco", "Africa">>,
     <<"United States", "North America">>, <<"Canada", "North America">>,
     <<"China", "Asia">>, <<"India", "Asia">>, <<"UAE", "Asia">>,
     <<"Japan", "Asia">>, <<"Singapore", "Asia">>, <<"Saudi Arabia", "Asia">>,
     <<"Turkey", "Asia">>, <<"Thailand", "Asia">>, <<"Indonesia", "Asia">>,
     <<"United Kingdom", "Europe">>, <<"Germany", "Europe">>,
     <<"Belgium", "Europe">>, <<"Netherlands", "Europe">>,
     <<"Switzerland", "Europe">>, <<"France", "Europe">>, <<"Italy", "Europe">>,
     <<"Brazil", "South America">> >>

regional_block_map ==
  << <<"Uganda", "EAC">>, <<"Kenya", "EAC">>, <<"Tanzania", "EAC">>,
     <<"Burundi", "EAC">>,
     <<"DRC", "COMESA">>, <<"Egypt", "COMESA">>, <<"Zambia", "COMESA">>,
     <<"Zimbabwe", "COMESA">>,
     <<"South Africa", "SADC">>, <<"Zambia", "SADC">>, <<"Zimbabwe", "SADC">>,
     <<"Tanzania", "SADC">>,
     <<"Nigeria", "ECOWAS">>, <<"Ghana", "ECOWAS">>,
     <<"China", "Other">>, <<"India", "Other">>, <<"UAE", "Other">>,
     <<"United States", "Other">>, <<"United Kingdom", "Other">>,
     <<"Germany", "EU">>, <<"Belgium", "EU">>, <<"Netherlands", "EU">>,
     <<"France", "EU">>, <<"Italy", "EU">>, <<"Japan", "Other">>,
     <<"Singapore", "Other">>, <<"Saudi Arabia", "Other">>,
     <<"Turkey", "Other">>, <<"Thailand", "Other">>, <<"Indonesia", "Other">>,
     <<"Brazil", "Other">>, <<"Canada", "Other">>, <<"Switzerland", "Other">>,
     <<"Morocco", "Other">> >>

hs_products_Export ==
  << <<"0901", "Coffee (not roasted)">>, <<"0902", "Tea">>,
     <<"2608", "Tin ores and concentrates">>,
     <<"2613", "Tantalum ores and concentrates">>, <<"7102", "Diamonds">>,
     <<"0709", "Vegetables (fresh/chilled)">>,
     <<"0804", "Dates, figs, pineapples, avocados">>,
     <<"6109", "T-shirts, singlets (knitted)">>,
     <<"6110", "Jerseys, pullovers (knitted)">>,
     <<"2710", "Petroleum oils (refined)">>,
     <<"8517", "Telephones/mobile phones">>, <<"2523", "Cement">>,
     <<"7326", "Iron/steel articles">>,
     <<"8471", "Data processing equipment">>, <<"0713", "Dried legumes">> >>

hs_products_Import ==
  << <<"2710", "Petroleum oils">>, <<"8703", "Motor cars">>,
     <<"8704", "Motor vehicles (goods transport)">>, <<"1001", "Wheat">>,
     <<"1006", "Rice">>, <<"8517", "Telephones/mobile phones">>,
     <<"8471", "Computers/data processing">>,
     <<"3004", "Medicaments (packaged)">>, <<"8528", "Television receivers">>,
     <<"6203", "Suits, ensembles (men)">>, <<"6204", "Suits, ensembles (women)">>,
     <<"2523", "Cement">>, <<"7213", "Iron/steel bars">>,
     <<"8415", "Air conditioning machines">>,
     <<"8716", "Trailers and semi-trailers">> >>

\* Lines 114-119: exports draw from the export catalogue, imports and
\* re-exports from the import catalogue.
products(flow) ==
  IF flow = "Export" THEN hs_products_Export ELSE hs_products_Import

Record_blockFirstWrittenForExports(year, month, flow, partner, prod_idx, value) ==
  [ Year              |-> year,
    Month             |-> month,
    Quarter           |-> quarters[month],
    Flow              |-> flow,
    Partner_Country   |-> partner,
    Partner_Continent |-> DictGet(continent_map, partner, "Other"),
    Regional_Block    |->
       IF flow = "Export" /\ DictHas(regional_block_map, partner)
       THEN LET first == CHOOSE i \in 1..Len(regional_block_map) :
                           /\ regional_block_map[i][1] = partner
                           /\ \A j \in 1..(i-1) :
                                 regional_block_map[j][1] # partner
            IN regional_block_map[first][2]
       ELSE DictGet(regional_block_map, partner, "Other"),
    HS_Code           |-> products(flow)[prod_idx][1],
    HS_Description    |-> products(flow)[prod_idx][2],
    Trade_Value_USD   |-> value,
    Month_Name        |-> month_names[month] ]

\* One record of the generation loop (the dict appended at lines 157-169,
\* with Month_Name added at line 177).
Record(year, month, flow, partner, prod_idx, value) ==
  [ Year              |-> year,
    Month             |-> month,
    Quarter           |-> quarters[month],
    Flow              |-> flow,
    Partner_Country   |-> partner,
    Partner_Continent |-> DictGet(continent_map, partner, "Other"),
    Regional_Block    |-> DictGet(regional_block_map, partner, "Other"),
    HS_Code           |-> products(flow)[prod_idx][1],
    HS_Description    |-> products(flow)[prod_idx][2],
    Trade_Value_USD   |-> value,
    Month_Name        |-> month_names[month] ]

\* ------------------------------------------- string order (Python's sort)
\* The strings the model sorts, in Python's (code point) order.
Collation ==
  <<"0901", "0902", "2710", "6203", "China", "Coffee (not roasted)", "Export",
    "Import", "Kenya", "Petroleum oils", "Petroleum oils (refined)",
    "Re-export", "Suits, ensembles (men)", "Tanzania", "Tea", "Uganda">>

StrRank(s) == CHOOSE i \in 1..Len(Collation) : Collation[i] = s

\* Tuple comparison, as pandas compares the keys of a (multi-)index.
KeyLess(a, b) ==
  \E i \in 1..Len(a) :
     /\ \A j \in 1..(i-1) : a[j] = b[j]
     /\ StrRank(a[i]) < StrRank(b[i])

\* Line 183: the file is sorted by Date, Flow, Partner_Country, HS_Code.
\* The loop visits a (year, month, flow, partner) once and draws its
\* products without replacement (line 125), so no two records share a key.
FileOrderLess(r, q) ==
  \/ r.Year < q.Year
  \/ r.Year = q.Year /\ r.Month < q.Month
  \/ /\ r.Year = q.Year /\ r.Month = q.Month
     /\ KeyLess(<<r.Flow, r.Partner_Country, r.HS_Code>>,
                <<q.Flow, q.Partner_Country, q.HS_Code>>)

\* ------------------------------------------------------------ model inputs
\* The records the model's files are built from: two years, two quarters,
\* two months of one quarter, the three flows, three partners on two
\* continents and in two blocks, three HS codes, equal and unequal values.
SampleRecords ==
  { Record(2023, 1, "Export",    "Uganda", 1, 100),
    Record(2024, 1, "Export",    "Kenya",  1, 100),
    Record(2024, 1, "Export",    "Uganda", 1, 150),
    Record(2024, 2, "Export",    "Kenya",  2, 150),
    Record(2024, 4, "Import",    "China",  1, 150),
    Record(2024, 1, "Re-export", "Uganda", 1, 100) }

\* The quarters the model's user picks; the records above fall in the first
\* two, so a later quarter only repeats the empty selection.
UserQuarters == {"All", "Q1", "Q2"}

\* The partner levels the model's user picks.
UserLevels == {"World", "Country"}

\* The files the dashboard may find: 1..MaxRows records in file order.
Tables ==
  { t \in UNION { [1..n -> SampleRecords] : n \in 1..MaxRows } :
      \A i, j \in 1..Len(t) : i < j => FileOrderLess(t[i], t[j]) }

\* ------------------------------------------------------------- arithmetic
\* An exact quotient num/den (den > 0), or nan.
Ratio(n, d) == [nan |-> FALSE, num |-> n, den |-> d]

NaN == [nan |-> TRUE, num |-> 0, den |-> 0]

Inf == [nan |-> FALSE, num |-> 1, den |-> 0]

\* a / b * 100 on numpy floats: x/0 does not raise, 0/0 is nan and x/0 inf.
Percent(a, b) ==
  IF b = 0 THEN (IF a = 0 THEN NaN ELSE Inf) ELSE Ratio(a * 100, b)

\* (a / b * 100).round(2), in hundredths of a percent; ties go to the even
\* neighbour.  nan stays nan.
Round2Percent(a, b) ==
  IF b = 0 THEN [nan |-> TRUE, hundredths |-> 0]
  ELSE LET h == a * 10000
           f == h \div b
           r == h % b
       IN [nan |-> FALSE,
           hundredths |-> IF 2 * r > b THEN f + 1
                          ELSE IF 2 * r < b THEN f
                          ELSE f + (f % 2)]

\* Series.sum() of Trade_Value_USD; the sum of no rows is 0.
RECURSIVE SumValues(_)
SumValues(rows) ==
  IF rows = <<>> THEN 0
  ELSE Head(rows).Trade_Value_USD + SumValues(Tail(rows))

\* --------------------------------------------------------------- the engine
\* filter_data (rwanda_trade_dashboard.py, lines 205-225).  A boolean mask
\* keeps the rows it selects in their order.
filter_data_noFlow(table, year, quarter, month, flow, hs_codes) ==
  LET inYear(r)    == r.Year = year
      inQuarter(r) == r.Quarter = quarter
      inMonth(r)   == r.Month_Name = month
      inCodes(r)   == r.HS_Code \in hs_codes
      f0 == SelectSeq(table, inYear)
      f1 == IF quarter # "All" THEN SelectSeq(f0, inQuarter) ELSE f0
      f2 == IF month # "All" THEN SelectSeq(f1, inMonth) ELSE f1
      f4 == IF "All" \notin hs_codes THEN SelectSeq(f2, inCodes) ELSE f2
  IN f4

filter_data_literalAll(table, year, quarter, month, flow, hs_codes) ==
  LET inYear(r)    == r.Year = year
      inQuarter(r) == r.Quarter = quarter
      inMonth(r)   == r.Month_Name = month
      inFlow(r)    == r.Flow = flow
      inCodes(r)   == r.HS_Code \in hs_codes
  IN SelectSeq(SelectSeq(SelectSeq(SelectSeq(SelectSeq(table, inYear),
        inQuarter), inMonth), inFlow), inCodes)

RECURSIVE Reverse(_)
Reverse(s) == IF s = <<>> THEN <<>> ELSE Append(Reverse(Tail(s)), Head(s))

filter_data_newestFirst(table, year, quarter, month, flow, hs_codes) ==
  LET inYear(r)    == r.Year = year
      inQuarter(r) == r.Quarter = quarter
      inMonth(r)   == r.Month_Name = month
      inFlow(r)    == r.Flow = flow
      inCodes(r)   == r.HS_Code \in hs_codes
      f0 == SelectSeq(table, inYear)
      f1 == IF quarter # "All" THEN SelectSeq(f0, inQuarter) ELSE f0
      f2 == IF month # "All" THEN SelectSeq(f1, inMonth) ELSE f1
      f3 == IF flow # "All" THEN SelectSeq(f2, inFlow) ELSE f2
      f4 == IF "All" \notin hs_codes THEN SelectSeq(f3, inCodes) ELSE f3
  IN Reverse(f4)

filter_data(table, year, quarter, month, flow, hs_codes) ==
  LET inYear(r)    == r.Year = year
      inQuarter(r) == r.Quarter = quarter
      inMonth(r)   == r.Month_Name = month
      inFlow(r)    == r.Flow = flow
      inCodes(r)   == r.HS_Code \in hs_codes
      f0 == SelectSeq(table, inYear)
      f1 == IF quarter # "All" THEN SelectSeq(f0, inQuarter) ELSE f0
      f2 == IF month # "All" THEN SelectSeq(f1, inMonth) ELSE f1
      f3 == IF flow # "All" THEN SelectSeq(f2, inFlow) ELSE f2
      f4 == IF "All" \notin hs_codes THEN SelectSeq(f3, inCodes) ELSE f3
  IN f4

\* df[df['Flow'] == flow]
OfFlow(rows, flow) ==
  LET isFlow(r) == r.Flow = flow IN SelectSeq(rows, isFlow)

\* The key of a row under groupby(cols): the tuple of its values in cols.
KeyOf(r, cols) == [ i \in 1..Len(cols) |-> r[cols[i]] ]

\* groupby(cols)['Trade_Value_USD'].sum() as a mapping: one entry per key
\* that occurs, holding the sum of the rows with that key.
GroupSum_firstRowPerKey(rows, cols) ==
  LET keys == { KeyOf(rows[i], cols) : i \in 1..Len(rows) }
  IN { [key |-> k,
        Trade_Value_USD |->
           LET first == CHOOSE i \in 1..Len(rows) :
                          /\ KeyOf(rows[i], cols) = k
                          /\ \A j \in 1..(i-1) : KeyOf(rows[j], cols) # k
           IN rows[first].Trade_Value_USD]
       : k \in keys }

GroupSum(rows, cols) ==
  LET keys == { KeyOf(rows[i], cols) : i \in 1..Len(rows) }
  IN { [key |-> k,
        Trade_Value_USD |->
           LET hasKey(r) == KeyOf(r, cols) = k
           IN SumValues(SelectSeq(rows, hasKey))]
       : k \in keys }

\* The same result as pandas lays it out: entries in ascending key order
\* (groupby sorts the group keys).
RECURSIVE InKeyOrder(_)
InKeyOrder(entries) ==
  IF entries = {} THEN <<>>
  ELSE LET first == CHOOSE e \in entries :
                      \A o \in entries \ {e} : KeyLess(e.key, o.key)
       IN <<first>> \o InKeyOrder(entries \ {first})

\* nlargest(n): the n largest values in descending order; among equal
\* values the entry that comes first in the input comes first (keep='first').
RemoveAt(s, i) == SubSeq(s, 1, i - 1) \o SubSeq(s, i + 1, Len(s))

RECURSIVE nsmallest(_, _)
nsmallest(s, n) ==
  IF n = 0 \/ s = <<>> THEN <<>>
  ELSE LET i == CHOOSE i \in 1..Len(s) :
                  /\ \A j \in 1..Len(s) :
                        s[j].Trade_Value_USD >= s[i].Trade_Value_USD
                  /\ \A j \in 1..(i-1) :
                        s[j].Trade_Value_USD > s[i].Trade_Value_USD
       IN <<s[i]>> \o nsmallest(RemoveAt(s, i), n - 1)

RECURSIVE nlargest(_, _)
nlargest(s, n) ==
  IF n = 0 \/ s = <<>> THEN <<>>
  ELSE LET i == CHOOSE i \in 1..Len(s) :
                  /\ \A j \in 1..Len(s) :
                        s[j].Trade_Value_USD <= s[i].Trade_Value_USD
                  /\ \A j \in 1..(i-1) :
                        s[j].Trade_Value_USD < s[i].Trade_Value_USD
       IN <<s[i]>> \o nlargest(RemoveAt(s, i), n - 1)

\* Lines 370-372 (and 398-400, 426-428): the partner ranking of one flow.
\* Rank is 1..len; Share_% divides by the sum of the ranking's own column.
top_partners(data, n) ==
  LET top   == nlargest(InKeyOrder(data), n)
      total == SumValues(top)
  IN [ i \in 1..Len(top) |->
         [ key             |-> top[i].key,
           Trade_Value_USD |-> top[i].Trade_Value_USD,
           Rank            |-> i,
           Share           |-> Round2Percent(top[i].Trade_Value_USD, total) ] ]

\* Lines 463 and 489: the product rankings.
top_by(data, n) == nlargest(InKeyOrder(data), n)

\* Lines 241-251: year-over-year growth of the total under the selection.
growth_rate_allFlows(table, year, quarter, month, flow, hs_codes, total) ==
  LET prev_year == year - 1
  IN IF \E i \in 1..Len(table) : table[i].Year = prev_year
     THEN LET prev_total ==
                SumValues(filter_data(table, prev_year, quarter, month,
                                      "All", hs_codes))
          IN IF prev_total > 0
             THEN Ratio((total - prev_total) * 100, prev_total)
             ELSE Ratio(0, 1)
     ELSE Ratio(0, 1)

growth_rate_of(table, year, quarter, month, flow, hs_codes, total) ==
  LET prev_year == year - 1
  IN IF \E i \in 1..Len(table) : table[i].Year = prev_year
     THEN LET prev_total ==
                SumValues(filter_data(table, prev_year, quarter, month,
                                      flow, hs_codes))
          IN IF prev_total > 0
             THEN Ratio((total - prev_total) * 100, prev_total)
             ELSE Ratio(0, 1)
     ELSE Ratio(0, 1)

\* ------------------------------------------------------------------- state
VARIABLES
  file_exists,             \* rwanda_trade_data.csv is on disk
  csv,                     \* its rows (<<>> when there is no file)
  phase,                   \* "start", "ready" (script ran to its end), "stopped"
  error_shown,             \* st.error was called
  df,                      \* the table load_data returned
  selected_year, selected_quarter, selected_month, selected_flow,
  selected_partner_level, selected_hs,
  filtered_df,
  total_trade, total_exports, total_imports, total_reexports, trade_balance,
  growth_rate,
  exports_pct, imports_pct, reexports_pct,   \* the "% of total" of the cards
  continent_data, regional_data,
  export_data, import_data, reexport_data,   \* per-partner sums of a flow
  top_exports, top_imports, top_reexports,
  product_data, flow_product,
  top_products, top_flow_products,
  monthly_trend,
  eac_share,
  \* create_rwanda_trade_data.py
  data,                    \* the list the loop appends to
  gen_pc,                  \* "idle", "partner", "product", "sort", "done"
  gen_iter,                \* position in the (year, month, flow, partner) loop
  selected_products        \* product indexes drawn for the partner, not yet used

widgets ==
  <<selected_year, selected_quarter, selected_month, selected_flow,
    selected_partner_level, selected_hs>>

outputs ==
  <<filtered_df, total_trade, total_exports, total_imports, total_reexports,
    trade_balance, growth_rate, exports_pct, imports_pct, reexports_pct,
    continent_data, regional_data, export_data, import_data, reexport_data,
    top_exports, top_imports, top_reexports, product_data, flow_product,
    top_products, top_flow_products, monthly_trend, eac_share>>

gen == <<data, gen_pc, gen_iter, selected_products>>

vars == <<file_exists, csv, phase, error_shown, df, widgets, outputs, gen>>

\* ------------------------------------------------------- the control panel
\* Line 142: the years of the table.
years(table) == { table[i].Year : i \in 1..Len(table) }

MaxOf(S) == CHOOSE x \in S : \A y \in S : y <= x

\* Line 150.
quarter_options == {"All", "Q1", "Q2", "Q3", "Q4"}

\* Lines 161-166.
quarter_months(q) ==
  CASE q = "Q1" -> {"January", "February", "March"}
    [] q = "Q2" -> {"April", "May", "June"}
    [] q = "Q3" -> {"July", "August", "September"}
    [] q = "Q4" -> {"October", "November", "December"}

\* Lines 158-167: the options of the month selectbox.
available_months(table, quarter) ==
  IF quarter = "All"
  THEN {"All"} \cup { table[i].Month_Name : i \in 1..Len(table) }
  ELSE {"All"} \cup quarter_months(quarter)

\* Line 176.
flow_options == {"All", "Export", "Import", "Re-export"}

\* Line 184.
partner_levels == {"World", "Regional Block", "Continent", "Country"}

\* Line 192.
hs_code_options(table) ==
  {"All"} \cup { table[i].HS_Code : i \in 1..Len(table) }

\* ------------------------------------------------------------ one execution
\* No statement of the script assigns to df or to a view of it: filter_data
\* works on a copy (line 207) and every aggregate is a new object.
TableAfterRun_filteredInPlace(table, year) ==
  LET inYear(r) == r.Year = year IN SelectSeq(table, inYear)

TableAfterRun(table, year) == table

monthly_trend_ofFiltered(table, filtered, year) ==
  GroupSum(filtered, <<"Month_Name", "Flow">>)

\* Line 515: the rows of the whole table in the selected year, summed by
\* month and flow (lines 518-521 only order the rows for the chart).
monthly_trend_of(table, filtered, year) ==
  LET inYear(r) == r.Year = year
  IN GroupSum(SelectSeq(table, inYear), <<"Month_Name", "Flow">>)

\* Lines 227-570 for the widget values given: everything the script computes
\* after the control panel, on the table load_data returned.
Run(table, year, quarter, month, flow, hs) ==
  LET filtered  == filter_data(table, year, quarter, month, flow, hs)
      total     == SumValues(filtered)
      exports   == SumValues(OfFlow(filtered, "Export"))
      imports   == SumValues(OfFlow(filtered, "Import"))
      reexports == SumValues(OfFlow(filtered, "Re-export"))
      exp_data  == GroupSum(OfFlow(filtered, "Export"), <<"Partner_Country">>)
      imp_data  == GroupSum(OfFlow(filtered, "Import"), <<"Partner_Country">>)
      rex_data  == GroupSum(OfFlow(filtered, "Re-export"), <<"Partner_Country">>)
      prod_data == GroupSum(filtered, <<"HS_Code", "HS_Description">>)
      flow_prod == GroupSum(filtered, <<"Flow", "HS_Description">>)
      inEAC(r)  == r.Regional_Block = "EAC"
  IN /\ filtered_df' = filtered
     /\ total_trade' = total
     /\ total_exports' = exports
     /\ total_imports' = imports
     /\ total_reexports' = reexports
     /\ trade_balance' = exports - imports
     /\ growth_rate' = growth_rate_of(table, year, quarter, month, flow, hs, total)
     /\ exports_pct' = Percent(exports, total)
     /\ imports_pct' = Percent(imports, total)
     /\ reexports_pct' = Percent(reexports, total)
     /\ continent_data' = GroupSum(filtered, <<"Partner_Continent">>)
     /\ regional_data' = GroupSum(filtered, <<"Regional_Block">>)
     /\ export_data' = exp_data
     /\ import_data' = imp_data
     /\ reexport_data' = rex_data
     /\ top_exports' = top_partners(exp_data, TopPartners)
     /\ top_imports' = top_partners(imp_data, TopPartners)
     /\ top_reexports' = top_partners(rex_data, TopPartners)
     /\ product_data' = prod_data
     /\ flow_product' = flow_prod
     /\ top_products' = top_by(prod_data, TopProducts)
     /\ top_flow_products' = top_by(flow_prod, TopProducts)
     /\ monthly_trend' = monthly_trend_of(table, filtered, year)
     /\ eac_share' = IF total > 0
                     THEN Percent(SumValues(SelectSeq(filtered, inEAC)), total)
                     ELSE Ratio(0, 1)
     /\ df' = TableAfterRun(table, year)

\* Nothing of the script after load_data has run: no table, the widgets at
\* their defaults, nothing computed.
NothingRun ==
  /\ df = <<>>
  /\ selected_year = 0
  /\ selected_quarter = "All"
  /\ selected_month = "All"
  /\ selected_flow = "All"
  /\ selected_partner_level = "World"
  /\ selected_hs = {"All"}
  /\ filtered_df = <<>>
  /\ total_trade = 0
  /\ total_exports = 0
  /\ total_imports = 0
  /\ total_reexports = 0
  /\ trade_balance = 0
  /\ growth_rate = Ratio(0, 1)
  /\ exports_pct = Ratio(0, 1)
  /\ imports_pct = Ratio(0, 1)
  /\ reexports_pct = Ratio(0, 1)
  /\ continent_data = {}
  /\ regional_data = {}
  /\ export_data = {}
  /\ import_data = {}
  /\ reexport_data = {}
  /\ product_data = {}
  /\ flow_product = {}
  /\ top_exports = <<>>
  /\ top_imports = <<>>
  /\ top_reexports = <<>>
  /\ top_products = <<>>
  /\ top_flow_products = <<>>
  /\ monthly_trend = {}
  /\ eac_share = Ratio(0, 1)

Init ==
  /\ file_exists \in BOOLEAN
  /\ csv \in (IF file_exists THEN Tables ELSE {<<>>})
  /\ phase = "start"
  /\ error_shown = FALSE
  /\ NothingRun
  /\ data = <<>>
  /\ gen_pc = "idle"
  /\ gen_iter = 0
  /\ selected_products = <<>>

\* First execution with the file present: load_data (lines 99-110), the
\* widgets at their defaults (index 0, default ['All']), then the script.
LoadData ==
  /\ phase = "start"
  /\ file_exists
  /\ phase' = "ready"
  /\ selected_year' = MaxOf(years(csv))
  /\ Run(csv, MaxOf(years(csv)), selected_quarter, selected_month,
         selected_flow, selected_hs)
  /\ UNCHANGED gen
  /\ UNCHANGED <<file_exists, csv, error_shown, selected_quarter,
                 selected_month, selected_flow, selected_partner_level,
                 selected_hs>>

\* First execution without the file: st.error, then st.stop (lines 106-108).
LoadDataMissing_noStop ==
  /\ phase = "start"
  /\ ~file_exists
  /\ error_shown' = TRUE
  /\ phase' = "ready"
  /\ UNCHANGED gen
  /\ UNCHANGED <<file_exists, csv, df, widgets, outputs>>

LoadDataMissing ==
  /\ phase = "start"
  /\ ~file_exists
  /\ error_shown' = TRUE
  /\ phase' = "stopped"
  /\ UNCHANGED gen
  /\ UNCHANGED <<file_exists, csv, df, widgets, outputs>>

SelectYear ==
  /\ phase = "ready"
  /\ \E y \in years(df) \ {selected_year} :
        /\ selected_year' = y
        /\ Run(df, y, selected_quarter, selected_month, selected_flow, selected_hs)
  /\ UNCHANGED gen
  /\ UNCHANGED <<file_exists, csv, phase, error_shown, selected_quarter,
                 selected_month, selected_flow, selected_partner_level,
                 selected_hs>>

SelectQuarter_keepsMonth ==
  /\ phase = "ready"
  /\ \E q \in (quarter_options \cap UserQuarters) \ {selected_quarter} :
        /\ selected_quarter' = q
        /\ selected_month' = selected_month
        /\ Run(df, selected_year, q, selected_month, selected_flow, selected_hs)
  /\ UNCHANGED gen
  /\ UNCHANGED <<file_exists, csv, phase, error_shown, selected_year,
                 selected_flow, selected_partner_level, selected_hs>>

\* A new quarter gives the month selectbox a new option list, and with it a
\* new widget at its default (index 0, "All").
SelectQuarter ==
  /\ phase = "ready"
  /\ \E q \in (quarter_options \cap UserQuarters) \ {selected_quarter} :
        /\ selected_quarter' = q
        /\ selected_month' = "All"
        /\ Run(df, selected_year, q, "All", selected_flow, selected_hs)
  /\ UNCHANGED gen
  /\ UNCHANGED <<file_exists, csv, phase, error_shown, selected_year,
                 selected_flow, selected_partner_level, selected_hs>>

SelectMonth ==
  /\ phase = "ready"
  /\ \E m \in available_months(df, selected_quarter) \ {selected_month} :
        /\ selected_month' = m
        /\ Run(df, selected_year, selected_quarter, m, selected_flow, selected_hs)
  /\ UNCHANGED gen
  /\ UNCHANGED <<file_exists, csv, phase, error_shown, selected_year,
                 selected_quarter, selected_flow, selected_partner_level,
                 selected_hs>>

SelectFlow ==
  /\ phase = "ready"
  /\ \E f \in flow_options \ {selected_flow} :
        /\ selected_flow' = f
        /\ Run(df, selected_year, selected_quarter, selected_month, f, selected_hs)
  /\ UNCHANGED gen
  /\ UNCHANGED <<file_exists, csv, phase, error_shown, selected_year,
                 selected_quarter, selected_month, selected_partner_level,
                 selected_hs>>

SelectPartnerLevel_countryShowsEAC ==
  /\ phase = "ready"
  /\ \E l \in (partner_levels \cap UserLevels) \ {selected_partner_level} :
        /\ selected_partner_level' = l
        /\ LET inEAC(r) == r.Regional_Block = "EAC"
           IN Run(IF l = "Country" THEN SelectSeq(df, inEAC) ELSE df,
                  selected_year, selected_quarter, selected_month,
                  selected_flow, selected_hs)
  /\ UNCHANGED gen
  /\ UNCHANGED <<file_exists, csv, phase, error_shown, selected_year,
                 selected_quarter, selected_month, selected_flow, selected_hs>>

\* Lines 183-189: the value is read from the widget and never used again; the
\* script is re-executed with everything else as it was.
SelectPartnerLevel ==
  /\ phase = "ready"
  /\ \E l \in (partner_levels \cap UserLevels) \ {selected_partner_level} :
        /\ selected_partner_level' = l
        /\ Run(df, selected_year, selected_quarter, selected_month,
                 selected_flow, selected_hs)
  /\ UNCHANGED gen
  /\ UNCHANGED <<file_exists, csv, phase, error_shown, selected_year,
                 selected_quarter, selected_month, selected_flow, selected_hs>>

\* The multiselect: one option is added to or removed from the selection.
SelectHS ==
  /\ phase = "ready"
  /\ \E c \in hs_code_options(df) :
        LET hs == IF c \in selected_hs THEN selected_hs \ {c}
                  ELSE selected_hs \cup {c}
        IN /\ selected_hs' = hs
           /\ Run(df, selected_year, selected_quarter, selected_month,
                    selected_flow, hs)
  /\ UNCHANGED gen
  /\ UNCHANGED <<file_exists, csv, phase, error_shown, selected_year,
                 selected_quarter, selected_month, selected_flow,
                 selected_partner_level>>

Next ==
  \/ LoadData
  \/ LoadDataMissing
  \/ SelectYear
  \/ SelectQuarter
  \/ SelectMonth
  \/ SelectFlow
  \/ SelectPartnerLevel
  \/ SelectHS

Spec == Init /\ [][Next]_vars

\* ------------------------------------- create_rwanda_trade_data.py, the run

\* The run is scaled: one year and one month of the twelve, every flow, two
\* of the twenty partners of each flow, two entries of each catalogue, one or
\* two products per partner (the script draws three to five of fifteen) and
\* one trade value.  Entry 10 of the export catalogue and entry 1 of the
\* import catalogue both carry HS code 2710.
GenYears == <<2024>>

GenMonths == <<1>>

GenPartnerNames == {"Tanzania", "China"}

GenProductIdx == {1, 10}

GenProductCounts == {1, 2}

GenValues == {100}

\* Line 122: the partners the loop visits for a flow, in list order.
LoopPartners(flow) ==
  SelectSeq(SubSeq(partners(flow), 1, PartnersPerFlow),
            LAMBDA p : p \in GenPartnerNames)

RECURSIVE Concat(_)
Concat(seqs) ==
  IF seqs = <<>> THEN <<>> ELSE Head(seqs) \o Concat(Tail(seqs))

\* Lines 108-122: the (year, month, flow, partner) iterations in loop order.
Iterations ==
  Concat([y \in 1..Len(GenYears) |->
    Concat([m \in 1..Len(GenMonths) |->
      Concat([f \in 1..Len(flows) |->
        [p \in 1..Len(LoopPartners(flows[f])) |->
           [ year    |-> GenYears[y],
             month   |-> GenMonths[m],
             flow    |-> flows[f],
             partner |-> LoopPartners(flows[f])[p] ]]])])])

\* Line 125: np.random.choice(len(products), n, replace=False), the draws of
\* n distinct indexes in any order.
Choices(flow, n) ==
  { sel \in [1..n -> GenProductIdx \cap (1..Len(products(flow)))] :
      \A i, j \in 1..n : i # j => sel[i] # sel[j] }

RECURSIVE InsertSorted(_, _)
InsertSorted(r, sorted) ==
  IF sorted = <<>> THEN <<r>>
  ELSE IF FileOrderLess(r, Head(sorted)) THEN <<r>> \o sorted
  ELSE <<Head(sorted)>> \o InsertSorted(r, Tail(sorted))

\* Line 183: sort_values(['Date', 'Flow', 'Partner_Country', 'HS_Code']).
RECURSIVE SortFile(_)
SortFile(rows) ==
  IF rows = <<>> THEN <<>>
  ELSE InsertSorted(rows[Len(rows)], SortFile(SubSeq(rows, 1, Len(rows) - 1)))

\* Lines 106-107: data = [] and the loop is entered; nothing has been written
\* yet and the dashboard is not running.
GenInit ==
  /\ file_exists = FALSE
  /\ csv = <<>>
  /\ phase = "start"
  /\ error_shown = FALSE
  /\ NothingRun
  /\ data = <<>>
  /\ gen_pc = "partner"
  /\ gen_iter = 1
  /\ selected_products = <<>>

\* Lines 122-125: the next partner; the number of products and the products
\* are drawn.
ChooseProducts ==
  /\ gen_pc = "partner"
  /\ gen_iter <= Len(Iterations)
  /\ \E n \in GenProductCounts :
       \E sel \in Choices(Iterations[gen_iter].flow, n) :
         selected_products' = sel
  /\ gen_pc' = "product"
  /\ UNCHANGED <<data, gen_iter>>
  /\ UNCHANGED <<file_exists, csv, phase, error_shown, df, widgets, outputs>>

\* Lines 127-169: one record is appended for the next drawn product; after
\* the last one the loop moves to the next partner, or leaves.
AppendRecord ==
  /\ gen_pc = "product"
  /\ selected_products # <<>>
  /\ \E value \in GenValues :
       LET it == Iterations[gen_iter]
       IN data' = Append(data, Record(it.year, it.month, it.flow, it.partner,
                                      Head(selected_products), value))
  /\ selected_products' = Tail(selected_products)
  /\ IF Tail(selected_products) # <<>>
     THEN UNCHANGED <<gen_pc, gen_iter>>
     ELSE /\ gen_iter' = gen_iter + 1
          /\ gen_pc' = IF gen_iter + 1 > Len(Iterations)
                       THEN "sort" ELSE "partner"
  /\ UNCHANGED <<file_exists, csv, phase, error_shown, df, widgets, outputs>>

\* Lines 171-187: the frame is built, sorted and written to the CSV file.
WriteFile ==
  /\ gen_pc = "sort"
  /\ csv' = SortFile(data)
  /\ file_exists' = TRUE
  /\ gen_pc' = "done"
  /\ UNCHANGED <<data, gen_iter, selected_products>>
  /\ UNCHANGED <<phase, error_shown, df, widgets, outputs>>

GenNext ==
  \/ ChooseProducts
  \/ AppendRecord
  \/ WriteFile

GenSpec == GenInit /\ [][GenNext]_vars

\* ================================================================== claims
Ready == phase = "ready"

Rows(seq) == { seq[i] : i \in 1..Len(seq) }

Count(seq, r) == Cardinality({ i \in 1..Len(seq) : seq[i] = r })

\* A row matches the selection for a year: its Year is that year and it
\* agrees with every dimension that is set.  A dimension is set when its
\* widget does not hold the sentinel "All".
Selected(r, year) ==
  /\ r.Year = year
  /\ selected_quarter # "All" => r.Quarter = selected_quarter
  /\ selected_month # "All" => r.Month_Name = selected_month
  /\ selected_flow # "All" => r.Flow = selected_flow
  /\ "All" \notin selected_hs => r.HS_Code \in selected_hs

\* Sum of Trade_Value_USD over the rows of a table at the given positions.
RECURSIVE ValueAt(_, _)
ValueAt(table, idx) ==
  IF idx = {} THEN 0
  ELSE LET i == CHOOSE i \in idx : TRUE
       IN table[i].Trade_Value_USD + ValueAt(table, idx \ {i})

RECURSIVE EntrySum(_)
EntrySum(entries) ==
  IF entries = {} THEN 0
  ELSE LET e == CHOOSE e \in entries : TRUE
       IN e.Trade_Value_USD + EntrySum(entries \ {e})

\* C1: filter_data returns exactly the rows of the table whose Year is the
\* selected year and which match every dimension that is set: each record
\* occurs in the result as often as in the table when it matches and not at
\* all when it does not, so the result holds only rows of the table.
C1_FilterExact ==
  Ready =>
    /\ Rows(filtered_df) \subseteq Rows(df)
    /\ \A r \in SampleRecords :
          Count(filtered_df, r) =
            IF Selected(r, selected_year) THEN Count(df, r) ELSE 0

\* C1 witness: two dimensions are set, a row of the selected year is kept and
\* another row of that year is dropped.
C1_Witness ==
  /\ Ready
  /\ selected_flow # "All"
  /\ "All" \notin selected_hs
  /\ filtered_df # <<>>
  /\ \E i \in 1..Len(df) :
        df[i].Year = selected_year /\ df[i] \notin Rows(filtered_df)

\* C2: "All" is never a match target: a row of the selected year that agrees
\* with every widget not holding "All" is in the result, whatever the other
\* widgets hold, and with "All" everywhere the result has every row of the
\* selected year.
C2_AllIsUnset ==
  Ready =>
    /\ \A i \in 1..Len(df) :
          ( /\ df[i].Year = selected_year
            /\ selected_quarter = "All" \/ df[i].Quarter = selected_quarter
            /\ selected_month = "All" \/ df[i].Month_Name = selected_month
            /\ selected_flow = "All" \/ df[i].Flow = selected_flow
            /\ "All" \in selected_hs \/ df[i].HS_Code \in selected_hs )
          => df[i] \in Rows(filtered_df)
    /\ ( /\ selected_quarter = "All" /\ selected_month = "All"
         /\ selected_flow = "All" /\ "All" \in selected_hs )
       => Len(filtered_df) =
            Cardinality({ i \in 1..Len(df) : df[i].Year = selected_year })

\* C2 witness: the flow is set, quarter and month hold "All", the HS selection
\* holds "All" next to a code, and rows of a code not selected are kept.
C2_Witness ==
  /\ Ready
  /\ selected_flow = "Export"
  /\ selected_quarter = "All"
  /\ selected_month = "All"
  /\ "All" \in selected_hs
  /\ Cardinality(selected_hs) > 1
  /\ \E i \in 1..Len(filtered_df) : filtered_df[i].HS_Code \notin selected_hs

\* C3: an empty HS selection is treated as unset: with selected_hs = {} the
\* result is the one filter_data gives for ['All'] and the same year,
\* quarter, month and flow.
C3_EmptyHsIsUnset ==
  (Ready /\ selected_hs = {}) =>
    filtered_df = filter_data(df, selected_year, selected_quarter,
                              selected_month, selected_flow, {"All"})

\* C4: in every partner ranking the share of a group is its value over the
\* sum of ALL groups of the aggregated mapping, rounded to 2 decimals.
C4_ShareOfAllGroups ==
  Ready =>
    /\ \A i \in 1..Len(top_exports) :
          top_exports[i].Share =
            Round2Percent(top_exports[i].Trade_Value_USD, EntrySum(export_data))
    /\ \A i \in 1..Len(top_imports) :
          top_imports[i].Share =
            Round2Percent(top_imports[i].Trade_Value_USD, EntrySum(import_data))
    /\ \A i \in 1..Len(top_reexports) :
          top_reexports[i].Share =
            Round2Percent(top_reexports[i].Trade_Value_USD,
                          EntrySum(reexport_data))

\* Totals of the selection in a year, taken over the table directly.
SelectionTotal(year) ==
  ValueAt(df, { i \in 1..Len(df) : Selected(df[i], year) })

\* C5: growth is (current - prior) / prior * 100 for the totals of the same
\* selection in the selected year and the year before when the prior total
\* is positive, and exactly 0 otherwise (prior year absent, no matching row,
\* zero total).
C5_Growth ==
  Ready =>
    LET cur   == SelectionTotal(selected_year)
        prior == SelectionTotal(selected_year - 1)
    IN /\ ~growth_rate.nan
       /\ growth_rate.den > 0
       /\ IF prior > 0
          THEN growth_rate.num * prior = (cur - prior) * 100 * growth_rate.den
          ELSE growth_rate.num = 0

\* C5 witness: a flow is selected and the growth is 50 percent (150 after 100).
C5_Witness ==
  /\ Ready
  /\ selected_flow = "Export"
  /\ SelectionTotal(selected_year - 1) = 100
  /\ SelectionTotal(selected_year) = 150
  /\ growth_rate.den > 0
  /\ growth_rate.num = 50 * growth_rate.den

IsZero(x) == ~x.nan /\ x.den > 0 /\ x.num = 0

\* C6: when the selection matches no row every KPI is zero: the totals, the
\* three "% of total" figures, the growth and the EAC share.
C6_EmptySelectionZeroKpis ==
  (Ready /\ filtered_df = <<>>) =>
    /\ total_trade = 0 /\ total_exports = 0 /\ total_imports = 0
    /\ total_reexports = 0 /\ trade_balance = 0
    /\ IsZero(growth_rate)
    /\ IsZero(eac_share)
    /\ IsZero(exports_pct)
    /\ IsZero(imports_pct)
    /\ IsZero(reexports_pct)

\* The grouping keys of the dashboard.
ByPartner(r)   == <<r.Partner_Country>>
ByContinent(r) == <<r.Partner_Continent>>
ByBlock(r)     == <<r.Regional_Block>>
ByProduct(r)   == <<r.HS_Code, r.HS_Description>>
ByFlowDesc(r)  == <<r.Flow, r.HS_Description>>

\* An aggregation of rows by a key: the keys are those of the rows, each
\* once; a group's value is the sum over the rows with its key; the groups
\* add up to the total of the rows.
IsAggregation(mapping, Key(_), InScope(_)) ==
  LET idx == { i \in 1..Len(filtered_df) : InScope(filtered_df[i]) }
  IN /\ { e.key : e \in mapping } = { Key(filtered_df[i]) : i \in idx }
     /\ \A e, o \in mapping : e.key = o.key => e = o
     /\ \A e \in mapping :
           e.Trade_Value_USD =
             ValueAt(filtered_df, { i \in idx : Key(filtered_df[i]) = e.key })
     /\ EntrySum(mapping) = ValueAt(filtered_df, idx)

AnyRow(r) == TRUE
IsExport(r) == r.Flow = "Export"
IsImport(r) == r.Flow = "Import"
IsReexport(r) == r.Flow = "Re-export"

\* C7: every aggregation of the dashboard (by continent, regional block,
\* partner within a flow, HS code and description, flow and description) is
\* an aggregation of the filtered rows in the sense above.
C7_Aggregation ==
  Ready =>
    /\ IsAggregation(continent_data, ByContinent, AnyRow)
    /\ IsAggregation(regional_data, ByBlock, AnyRow)
    /\ IsAggregation(export_data, ByPartner, IsExport)
    /\ IsAggregation(import_data, ByPartner, IsImport)
    /\ IsAggregation(reexport_data, ByPartner, IsReexport)
    /\ IsAggregation(product_data, ByProduct, AnyRow)
    /\ IsAggregation(flow_product, ByFlowDesc, AnyRow)

\* C7 witness: two filtered rows of different partners and products fall in
\* one continent group.
C7_Witness ==
  /\ Ready
  /\ Len(filtered_df) = 2
  /\ Cardinality(continent_data) = 1
  /\ Cardinality(export_data) = 2
  /\ Cardinality(product_data) = 2

Min(a, b) == IF a <= b THEN a ELSE b

\* A ranking of a mapping cut at n: min(n, groups) entries, each a group of
\* the mapping, values non-increasing, equal values in ascending key order,
\* and no group left out that should come before the last one kept.
IsTopN(top, mapping, n) ==
  /\ Len(top) = Min(n, Cardinality(mapping))
  /\ \A i \in 1..Len(top) :
        [key |-> top[i].key, Trade_Value_USD |-> top[i].Trade_Value_USD]
          \in mapping
  /\ \A i, j \in 1..Len(top) :
        i < j =>
          \/ top[i].Trade_Value_USD > top[j].Trade_Value_USD
          \/ /\ top[i].Trade_Value_USD = top[j].Trade_Value_USD
             /\ KeyLess(top[i].key, top[j].key)
  /\ \A e \in mapping :
        (\A i \in 1..Len(top) : top[i].key # e.key) =>
          \A i \in 1..Len(top) :
             \/ top[i].Trade_Value_USD > e.Trade_Value_USD
             \/ /\ top[i].Trade_Value_USD = e.Trade_Value_USD
                /\ KeyLess(top[i].key, e.key)

HasRanks(top) == \A i \in 1..Len(top) : top[i].Rank = i

RECURSIVE IsSubseq(_, _)
IsSubseq(s, t) ==
  IF s = <<>> THEN TRUE
  ELSE IF t = <<>> THEN FALSE
  ELSE IF Head(s) = Head(t) THEN IsSubseq(Tail(s), Tail(t))
  ELSE IsSubseq(s, Tail(t))

\* C9: the result of filter_data keeps the table's row order, and with every
\* optional field unset it is the selected year's rows in that order.
C9_OrderPreserved ==
  Ready =>
    /\ IsSubseq(filtered_df, df)
    /\ ( /\ selected_quarter = "All" /\ selected_month = "All"
         /\ selected_flow = "All" /\ selected_hs = {"All"} )
       => LET inYear(r) == r.Year = selected_year
          IN filtered_df = SelectSeq(df, inYear)

\* C9 witness: a flow is selected and two rows are kept.
C9_Witness ==
  /\ Ready
  /\ selected_flow # "All"
  /\ Len(filtered_df) = 2
  /\ filtered_df[1] # filtered_df[2]

\* C10: once load_data has returned, the table is what the file held and no
\* execution of the script changes it.
C10_TableImmutable ==
  [][ /\ phase' = "ready" => df' = csv'
      /\ phase = "ready" => df' = df ]_vars

\* C10 witness: the script has filtered rows out and the table still holds
\* every row of the file.
C10_Witness ==
  /\ Ready
  /\ selected_flow # "All"
  /\ Len(filtered_df) < Len(df)
  /\ df = csv

\* C11: without the file load_data shows the error and the execution stops
\* there: the script never reaches its end, no widget is rendered or changed
\* and nothing is filtered or computed.
C11_MissingFileHalts ==
  ~file_exists =>
    /\ phase \in {"start", "stopped"}
    /\ phase = "stopped" <=> error_shown
    /\ NothingRun

\* C11 witness: the first execution has run without the file.
C11_Witness ==
  /\ ~file_exists
  /\ phase = "stopped"
  /\ error_shown
  /\ filtered_df = <<>>


\* C12: in every table the generator writes, HS code and HS description
\* determine each other: two records with the same code have the same
\* description and two records with the same description have the same code,
\* whatever their flows.
C12_CodeAndDescriptionDetermineEachOther ==
  gen_pc = "done" =>
    \A i, j \in 1..Len(csv) :
      csv[i].HS_Code = csv[j].HS_Code
        <=> csv[i].HS_Description = csv[j].HS_Description

InLookup(mapping, partner) ==
  \E k \in 1..Len(mapping) : mapping[k][1] = partner

\* The written table and the list it is built from.
Generated == {csv[i] : i \in 1..Len(csv)} \cup {data[i] : i \in 1..Len(data)}

\* C13: in the generated records every partner has one continent and one
\* regional block, the same on each of its records and never missing, and a
\* partner absent from a lookup gets "Other".
C13_OneContinentOneBlock ==
  \A r \in Generated :
    /\ InLookup(continent_map, r.Partner_Country)
         => \E k \in 1..Len(continent_map) :
              continent_map[k] = <<r.Partner_Country, r.Partner_Continent>>
    /\ InLookup(regional_block_map, r.Partner_Country)
         => \E k \in 1..Len(regional_block_map) :
              regional_block_map[k] = <<r.Partner_Country, r.Regional_Block>>
    /\ ~InLookup(continent_map, r.Partner_Country)
         => r.Partner_Continent = "Other"
    /\ ~InLookup(regional_block_map, r.Partner_Country)
         => r.Regional_Block = "Other"
    /\ \A q \in Generated :
         q.Partner_Country = r.Partner_Country =>
           /\ q.Partner_Continent = r.Partner_Continent
           /\ q.Regional_Block = r.Regional_Block

\* Tanzania, whose block is written twice in the lookup, has been written to
\* the file under an export and under another flow.
C13_Witness ==
  /\ gen_pc = "done"
  /\ \E i, j \in 1..Len(csv) :
       /\ csv[i].Partner_Country = "Tanzania"
       /\ csv[j].Partner_Country = "Tanzania"
       /\ csv[i].Flow = "Export"
       /\ csv[j].Flow = "Import"
       /\ csv[i].Regional_Block = "SADC"


\* The months the table's own Quarter column puts in a quarter.
MonthsOfQuarter(q) == { month_names[m] : m \in {k \in 1..12 : quarters[k] = q} }

\* C14: the month options are "All" plus the three months of the selected
\* quarter (the months of the table when the quarter is "All"), and after any
\* sequence of selections the month given to filter_data is "All" or a month
\* of the selected quarter.
C14_MonthWithinQuarter ==
  Ready =>
    /\ \A q \in quarter_options \ {"All"} :
         /\ available_months(df, q) = {"All"} \cup MonthsOfQuarter(q)
         /\ Cardinality(available_months(df, q)) = 4
    /\ available_months(df, "All") = {"All"} \cup {r.Month_Name : r \in Rows(df)}
    /\ selected_month \in available_months(df, selected_quarter)
    /\ (selected_quarter # "All" /\ selected_month # "All")
         => selected_month \in MonthsOfQuarter(selected_quarter)

\* A quarter was selected after a month of another quarter, and then a month
\* of the new quarter that has rows.
C14_Witness ==
  /\ Ready
  /\ selected_quarter = "Q2"
  /\ selected_month = "April"
  /\ filtered_df # <<>>


\* The trade of a year in the table, by month and flow.
YearTrend(table, year) ==
  LET idx == { i \in 1..Len(table) : table[i].Year = year }
  IN { [key |-> <<table[i].Month_Name, table[i].Flow>>,
        Trade_Value_USD |->
          ValueAt(table, { j \in idx : /\ table[j].Month_Name = table[i].Month_Name
                                        /\ table[j].Flow = table[i].Flow })]
       : i \in idx }

\* C15: the monthly trend is a function of the table and the selected year
\* alone: whatever quarter, month, flow and HS codes are selected, it is the
\* trade of the whole year by month and flow.
C15_TrendOfYearOnly ==
  Ready => monthly_trend = YearTrend(df, selected_year)

\* A flow and a month are selected, the KPIs cover less than the year, and
\* the trend still shows another month.
C15_Witness ==
  /\ Ready
  /\ selected_flow = "Export"
  /\ selected_month = "January"
  /\ filtered_df # <<>>
  /\ total_trade < EntrySum(monthly_trend)
  /\ \E e \in monthly_trend : e.key[1] = "February"


\* C16: the partner level has no effect on what is computed: a run that
\* differs from the previous one only in the selected partner level leaves
\* the table, the filtered rows, the KPIs, the aggregations and the rankings
\* as they were.
C16_PartnerLevelHasNoEffect ==
  [][ (Ready /\ selected_partner_level' # selected_partner_level)
        => /\ outputs' = outputs
           /\ df' = df
           /\ <<selected_year, selected_quarter, selected_month,
                selected_flow, selected_hs>>' =
              <<selected_year, selected_quarter, selected_month,
                selected_flow, selected_hs>> ]_vars

\* The level "Country" is selected on a selection with rows of a partner
\* outside the EAC.
C16_Witness ==
  /\ Ready
  /\ selected_partner_level = "Country"
  /\ total_trade > 0
  /\ \E r \in Rows(filtered_df) : r.Regional_Block # "EAC"

====
